---- MODULE Spec2Model ----
(***************************************************************************)
(* A model of the deferred-task ("Future") lifecycle of better-future.     *)
(*                                                                         *)
(* One Future is modelled together with its shared FutureState, the host   *)
(* clock and the host timers it arms.  Every action is one synchronous     *)
(* run of JavaScript: a method call made by client code, a timer callback, *)
(* or the continuation of the task wrapper after one of its awaits.        *)
(***************************************************************************)
EXTENDS Integers, FiniteSets, Sequences, TLC

\* ------------------------------------------------------------------------
\* Bounds of the model
\* ------------------------------------------------------------------------
MaxTime == 4        \* the clock runs from 1 to MaxTime
DelayMs == 1        \* the value of options.delay when it is supplied
FromNowMs == 1      \* the value of options.timeoutFromNow when supplied
FromStartMs == 2    \* the value of options.timeoutFromStart when supplied
MaxPause == 2       \* pause() is not called beyond this nesting depth
MaxInvoke == 2      \* the invocation counter stops counting here
MaxMembers == 2     \* the number of Futures handed to a combinator
MaxTasks == 4       \* the number of Futures a client hands to a TaskPool
MaxSize == 2        \* the largest size a TaskPool is constructed with
PoolTimeoutMs == 2  \* the timeout option of a TaskPool when it is supplied
MaxGroup == 3       \* the number of members added to a TaskGroup
GroupTimeoutMs == 2 \* the timeout option of a TaskGroup when it is supplied
MaxReadd == 1       \* the number of its Futures a client hands to a TaskPool again
MaxHeapLen == 5     \* the largest number of elements a MinHeap holds
MaxKey == 3         \* the elements of a MinHeap are the numbers 0..MaxKey
MaxLate == 1        \* the number of members added after the group was started

VARIABLES
    options,          \* FutureOptions given to the constructor
    legacyTask,       \* FutureState.legacyTask
    behaviour,        \* what the supplied computation does once invoked
    state,            \* FutureState.state
    task,             \* FutureState.task: "wrapper" or "null"
    startTime,        \* FutureState.startTime, 0 when undefined
    exception,        \* FutureState.exception
    pauseLevel,       \* FutureState.#pauseLevel
    pausePromise,     \* FutureState.#pausePromise: "none", "pending", "resolved"
    inner,            \* the promise created in the constructor (resolve/reject)
    auxPromise,       \* FutureState.auxPromise
    promise,          \* Future.#promise of the head Future
    onStartPromise,   \* FutureState.#onStartPromise
    onCancelPromise,  \* FutureState.#onCancelPromise
    onTimeoutPromise, \* FutureState.#onTimeoutPromise
    handlers,         \* the channels a client handler was registered on
    received,         \* per channel, what its client handler was called with
    combinator,       \* Future.race/all/allSettled/any: which one built this Future
    thenables,        \* the state of each Future handed to the combinator
    adopted,          \* the members whose then() the host has called
    winner,           \* the outcome of the member that settled first
    poolSize,         \* TaskPool.#size, 0 when there is no pool
    queue,            \* TaskPool.#queue, in insertion order
    running,          \* TaskPool.#running
    tasks,            \* the Futures handed to the pool: state and pause depth
    returned,         \* the Futures that add() has returned to the client
    poolTimeout,      \* the timeout option given to new TaskPool, 0 when absent
    hooked,           \* the Futures the pool gave an onStart(timer) handler
    resultType,       \* TaskGroup.#result_type, "none" when there is no group
    reducer,          \* the reducer option of a REDUCE group
    groupTimeout,     \* the timeout option given to new TaskGroup, 0 if absent
    members,          \* the Futures add() put in the group: type and state
    reactions,        \* queued reactions of the aggregation to member outcomes
    collected,        \* the result array Promise.all/allSettled is filling
    generator,        \* TaskGroup.#reducer: the state of the generator object
    seen,             \* what the body of the reducer has received, in order
    count,            \* the counter of #run for REDUCE
    cancellerRan,     \* the canceller registered with when() was called
    groupTimer,       \* the timer of TaskGroup.start() is armed
    firstRejected,    \* history: the normal member that rejected first
    unattached,       \* members added after #run attached the aggregation
    heap,             \* MinHeap.#heap
    held,             \* history: how often each element was added and not taken out
    popped,           \* what the last pop() returned
    removed,          \* what the last remove() returned
    draining,         \* history: pop() was called
    pc,               \* position of the task wrapper: idle, delay, run, done
    invoked,          \* number of invocations of the supplied computation
    fromNowTimer,     \* deadline of the timeoutFromNow timer, 0 when not armed
    fromStartTimer,   \* deadline of the timeoutFromStart timer, 0 when not armed
    delayTimer,       \* deadline of the delay() timer, 0 when not armed
    now,              \* Date.now()
    threw,            \* the last operation threw synchronously
    late,             \* history: start() or then() found the task already cleared
    pausedAt          \* history: the pause depth at which PAUSED was entered

vars == <<options, legacyTask, behaviour, state, task, startTime, exception,
          pauseLevel, pausePromise, inner, auxPromise, promise,
          onStartPromise, onCancelPromise, onTimeoutPromise, handlers,
          received, combinator, thenables, adopted, winner,
          poolSize, queue, running, tasks, returned, poolTimeout, hooked,
          resultType, reducer, groupTimeout, members, reactions, collected,
          generator, seen, count, cancellerRan, groupTimer, firstRejected,
          unattached, heap, held, popped, removed, draining, pc, invoked, fromNowTimer, fromStartTimer, delayTimer, now,
          threw, late, pausedAt>>

\* ------------------------------------------------------------------------
\* Values
\* ------------------------------------------------------------------------
State == {"PENDING", "DELAY", "RUNNING", "PAUSED",
          "FULFILLED", "REJECTED", "TIMEOUT", "CANCELLED"}

\* Mutant: CANCELLED is not counted as terminal.
isTerminalStateNoCancelled(s) ==
    \/ s = "FULFILLED"
    \/ s = "TIMEOUT"
    \/ s = "REJECTED"

\* Mutant: FULFILLED and REJECTED are not counted as terminal.
isTerminalStateNoSettled(s) ==
    \/ s = "TIMEOUT"
    \/ s = "CANCELLED"

isTerminalState(s) ==
    \/ s = "FULFILLED"
    \/ s = "TIMEOUT"
    \/ s = "CANCELLED"
    \/ s = "REJECTED"

\* FutureException: the start and end times it records.
FutureException(kind, start, end) ==
    [kind |-> kind, startTime |-> start, endTime |-> end]

NoException == FutureException("none", 0, 0)

\* What a computation throws or rejects with: a plain Error.
TaskError == FutureException("Error", 0, 0)

\* new TimeoutException(future, msg): start defaults to future.startTime,
\* end to Date.now().
TimeoutException == FutureException("Timeout", startTime, now)

\* new CancelledException(future, msg, startTime)
CancelledException == FutureException("Cancelled", startTime, now)

PendingPromise == [st |-> "pending", v |-> NoException]
Fulfilled(v) == [st |-> "fulfilled", v |-> v]
Rejected(e) == [st |-> "rejected", v |-> e]

\* Calling the resolve function of a promise: only the first call counts.
resolve(p, v) == IF p.st = "pending" THEN Fulfilled(v) ELSE p

\* Calling the reject function of a promise: only the first call counts.
reject(p, e) == IF p.st = "pending" THEN Rejected(e) ELSE p

\* A notification channel that was not materialised yet.
NoPromise == [st |-> "none", v |-> NoException]

\* The onStart/onCancel/onTimeout getters materialise the channel's promise
\* and hand out its resolve function, which #resolved then calls.
notify(p, v) == IF p.st \in {"none", "pending"} THEN Fulfilled(v) ELSE p

\* #ensureCancelPromise / #ensureTimeoutPromise
ensurePromise(p) == IF p.st = "none" THEN PendingPromise ELSE p

\* #ensureStartPromise: a late materialisation is resolved at once.
ensureStartPromise(p) ==
    IF p.st = "none"
    THEN IF startTime # 0 THEN Fulfilled(FutureException("start", startTime, 0))
                          ELSE PendingPromise
    ELSE p

\* FutureState.canCancel: cancellation was enabled at construction.
canCancel == options.cancel

\* The constructor races #promise against auxPromise only with these options.
Raced ==
    options.cancel \/ options.timeoutFromNow > 0 \/ options.timeoutFromStart > 0

\* Mutant: the timer is armed without its delay.
timeoutAtOnce(time) == IF time <= 0 THEN 0 ELSE now

\* The timeout helper of the constructor: the deadline of the timer it arms,
\* 0 when it arms none.
timeout(time) == IF time <= 0 THEN 0 ELSE now + time

\* The outcome of #promise after a step that settled inner or auxPromise.
Outcome(in, aux) ==
    IF promise.st # "pending" THEN promise
    ELSE IF in.st # "pending" THEN in
    ELSE IF Raced /\ aux.st # "pending" THEN aux
    ELSE promise

\* Host timers fire in the order of their deadlines.
ArmedTimers == {fromNowTimer, fromStartTimer, delayTimer} \ {0}
Due(t) == t > 0 /\ now >= t /\ \A d \in ArmedTimers : t <= d

OptionSets ==
    [cancel : BOOLEAN, delay : {0, DelayMs},
     timeoutFromStart : {0, FromStartMs}, timeoutFromNow : {0, FromNowMs}]

\* The task was given no options argument.
NoOptions ==
    [cancel |-> FALSE, delay |-> 0, timeoutFromStart |-> 0, timeoutFromNow |-> 0]

Behaviours == {"return", "throw", "reject", "never"}

\* The notification channels of a Future.
Channels == {"start", "cancel", "timeout"}

\* A Future that was not built by a combinator has no members.
NoCombinator ==
    /\ combinator = "none"
    /\ thenables = <<>>
    /\ adopted = {}
    /\ winner = "none"

\* No TaskPool was constructed.
NoPool ==
    /\ poolSize = 0
    /\ queue = <<>>
    /\ running = {}
    /\ tasks = <<>>
    /\ returned = {}
    /\ poolTimeout = 0
    /\ hooked = {}

\* No TaskGroup was constructed.
NoGroup ==
    /\ resultType = "none"
    /\ reducer = "none"
    /\ groupTimeout = 0
    /\ members = <<>>
    /\ reactions = <<>>
    /\ collected = <<>>
    /\ generator = "none"
    /\ seen = <<>>
    /\ count = 0
    /\ cancellerRan = FALSE
    /\ groupTimer = FALSE
    /\ firstRejected = 0
    /\ unattached = {}

\* The value of a read past the end of an array.
Undefined == 0 - 1

\* The elements a client puts in a MinHeap: numbers, ordered by the default
\* key function, the identity.
Keys == 0..MaxKey

\* No MinHeap was constructed.
NoHeap ==
    /\ heap = <<>>
    /\ held = [x \in Keys |-> 0]
    /\ popped = Undefined
    /\ removed = FALSE
    /\ draining = FALSE

\* ------------------------------------------------------------------------
\* new Future(task, options)
\* ------------------------------------------------------------------------
Init ==
    /\ options \in OptionSets
    /\ legacyTask \in {l \in BOOLEAN : l => options = NoOptions}
    /\ behaviour \in Behaviours
    /\ state = "PENDING"
    /\ task = "wrapper"
    /\ startTime = 0
    /\ exception = NoException
    /\ pauseLevel = 0
    /\ pausePromise = "none"
    /\ inner = PendingPromise
    /\ auxPromise = PendingPromise
    /\ promise = PendingPromise
    /\ onStartPromise = NoPromise
    /\ onCancelPromise = NoPromise
    /\ onTimeoutPromise = NoPromise
    /\ handlers = {}
    /\ received = [ch \in Channels |-> NoException]
    /\ NoCombinator
    /\ NoPool
    /\ NoGroup
    /\ NoHeap
    /\ pc = "idle"
    /\ invoked = 0
    /\ now = 1
    /\ fromNowTimer = timeout(options.timeoutFromNow)
    /\ fromStartTimer = 0
    /\ delayTimer = 0
    /\ threw = FALSE
    /\ late = FALSE
    /\ pausedAt = 0

\* The members of a combinator and what became of them.
group == <<combinator, thenables, adopted, winner>>

\* A TaskPool and the Futures handed to it.
pool == <<poolSize, queue, running, tasks, returned, poolTimeout, hooked>>

\* What no operation of the Future itself changes: its configuration, what
\* the client's handlers have seen, the members of a combinator, and a pool.
\* A TaskGroup, its members and its aggregation.
tgroup == <<resultType, reducer, groupTimeout, members, reactions, collected,
            generator, seen, count, cancellerRan, groupTimer, firstRejected,
            unattached>>

\* A MinHeap and what its client did with it.
minheap == <<heap, held, popped, removed, draining>>

cfg == <<options, legacyTask, behaviour, received, group, pool, tgroup,
         minheap>>
hist == <<late, pausedAt>>
chans == <<onStartPromise, onCancelPromise, onTimeoutPromise, handlers>>
pausev == <<pauseLevel, pausePromise>>

TaskValue == FutureException("value", 0, 0)

\* Mutant: the start channel is given the creation time (createTime).
StartValueAtCreation == FutureException("start", 1, 0)

\* What the wrapper passes to the start channel: the start time just taken.
StartValue == FutureException("start", now, 0)

\* ------------------------------------------------------------------------
\* The task wrapper installed by the constructor
\* ------------------------------------------------------------------------
\* From "state = RUNNING" to the first await of the computation, or to the
\* end of the catch block when the computation throws synchronously.
RunTask ==
    /\ startTime' = now
    /\ onStartPromise' = notify(onStartPromise, StartValue)
    /\ fromStartTimer' = timeout(options.timeoutFromStart)
    /\ invoked' = IF invoked < MaxInvoke THEN invoked + 1 ELSE invoked
    /\ IF behaviour = "throw"
       THEN /\ state' = IF isTerminalState("RUNNING") THEN "RUNNING" ELSE "REJECTED"
            /\ exception' = IF isTerminalState("RUNNING") THEN exception ELSE TaskError
            /\ inner' = reject(inner, TaskError)
            /\ pc' = "done"
       ELSE /\ state' = "RUNNING"
            /\ exception' = exception
            /\ inner' = inner
            /\ pc' = "run"
    /\ promise' = Outcome(inner', auxPromise)
    /\ UNCHANGED <<auxPromise, onCancelPromise, onTimeoutPromise, handlers,
                   pausev, fromNowTimer>>

\* Mutant: the wrapper does not wait out options.delay.
TaskWrapperSkipsDelay ==
    /\ task' = "null"
    /\ RunTask
    /\ UNCHANGED delayTimer

\* Mutant: the wrapper does not clear FutureState.task.
TaskWrapperKeepsTask ==
    /\ task' = task
    /\ IF options.delay > 0
       THEN /\ state' = "DELAY"
            /\ delayTimer' = now + options.delay
            /\ pc' = "delay"
            /\ UNCHANGED <<startTime, exception, inner, auxPromise, promise,
                           chans, pausev, invoked, fromNowTimer, fromStartTimer>>
       ELSE /\ RunTask
            /\ UNCHANGED delayTimer

\* The wrapper from its entry to its first await.
TaskWrapper ==
    /\ task' = "null"
    /\ IF options.delay > 0
       THEN /\ state' = "DELAY"
            /\ delayTimer' = now + options.delay
            /\ pc' = "delay"
            /\ UNCHANGED <<startTime, exception, inner, auxPromise, promise,
                           chans, pausev, invoked, fromNowTimer, fromStartTimer>>
       ELSE /\ RunTask
            /\ UNCHANGED delayTimer

\* this.#s.task?.call(context, context)
CallTask ==
    IF task = "null"
    THEN UNCHANGED <<state, task, startTime, exception, pausev, inner,
                     auxPromise, promise, chans, pc, invoked, fromNowTimer,
                     fromStartTimer, delayTimer>>
    ELSE TaskWrapper

\* Future.start()
Start ==
    /\ CallTask
    /\ threw' = FALSE
    /\ late' = (late \/ task = "null")
    /\ UNCHANGED <<cfg, pausedAt, now>>

\* Future.then(): starts the task, then derives a Future from #promise.
Then ==
    /\ CallTask
    /\ threw' = FALSE
    /\ late' = (late \/ task = "null")
    /\ UNCHANGED <<cfg, pausedAt, now>>

\* Mutant: when()/catch()/finally() start the task the way then() does.
ObserveStarts ==
    /\ CallTask
    /\ threw' = FALSE
    /\ UNCHANGED <<cfg, hist, now>>

\* Future.when(), Future.catch(), Future.finally(): derive a Future only.
Observe ==
    /\ threw' = FALSE
    /\ UNCHANGED <<cfg, hist, state, task, startTime, exception, pausev, inner,
                   auxPromise, promise, chans, pc, invoked, fromNowTimer,
                   fromStartTimer, delayTimer, now>>

\* The wrapper resumes after "await delay(options.delay)".
DelayElapsed ==
    /\ pc = "delay"
    /\ Due(delayTimer)
    /\ delayTimer' = 0
    /\ RunTask
    /\ threw' = FALSE
    /\ UNCHANGED <<cfg, hist, task, now>>

\* The awaited computation returned a value (the legacy computation called
\* resolve).
TaskReturns ==
    /\ pc = "run"
    /\ behaviour = "return"
    /\ inner' = resolve(inner, TaskValue)
    /\ state' = IF legacyTask THEN state ELSE "FULFILLED"
    /\ promise' = Outcome(inner', auxPromise)
    /\ pc' = "done"
    /\ threw' = FALSE
    /\ UNCHANGED <<cfg, hist, task, startTime, exception, pausev, auxPromise, chans,
                   invoked, fromNowTimer, fromStartTimer, delayTimer, now>>

\* The awaited computation rejected (the legacy computation called reject).
TaskRejects ==
    /\ pc = "run"
    /\ behaviour = "reject"
    /\ IF legacyTask \/ isTerminalState(state)
       THEN UNCHANGED <<state, exception>>
       ELSE /\ exception' = TaskError
            /\ state' = "REJECTED"
    /\ inner' = reject(inner, TaskError)
    /\ promise' = Outcome(inner', auxPromise)
    /\ pc' = "done"
    /\ threw' = FALSE
    /\ UNCHANGED <<cfg, hist, task, startTime, pausev, auxPromise, chans,
                   invoked, fromNowTimer, fromStartTimer, delayTimer, now>>

\* ------------------------------------------------------------------------
\* Cancellation and timeouts
\* ------------------------------------------------------------------------
\* Mutant: #resolved records the state but does not reject auxPromise.
ResolvedKeepsAux(st, e) ==
    /\ state' = IF isTerminalState(state) THEN state ELSE st
    /\ exception' = IF isTerminalState(state) THEN exception ELSE e
    /\ task' = "null"
    /\ auxPromise' = auxPromise
    /\ promise' = promise
    /\ IF st = "CANCELLED"
       THEN /\ onCancelPromise' = notify(onCancelPromise, e)
            /\ UNCHANGED onTimeoutPromise
       ELSE /\ onTimeoutPromise' = notify(onTimeoutPromise, e)
            /\ UNCHANGED onCancelPromise
    /\ UNCHANGED <<startTime, pausev, inner, onStartPromise, handlers, pc,
                   invoked>>

\* Mutant: #resolved does not clear FutureState.task.
ResolvedKeepsTask(st, e) ==
    /\ state' = IF isTerminalState(state) THEN state ELSE st
    /\ exception' = IF isTerminalState(state) THEN exception ELSE e
    /\ task' = task
    /\ auxPromise' = reject(auxPromise, e)
    /\ promise' = Outcome(inner, auxPromise')
    /\ IF st = "CANCELLED"
       THEN /\ onCancelPromise' = notify(onCancelPromise, e)
            /\ UNCHANGED onTimeoutPromise
       ELSE /\ onTimeoutPromise' = notify(onTimeoutPromise, e)
            /\ UNCHANGED onCancelPromise
    /\ UNCHANGED <<startTime, pausev, inner, onStartPromise, handlers, pc,
                   invoked>>

\* Future.#resolved(state, handler, v, e)
Resolved(st, e) ==
    /\ state' = IF isTerminalState(state) THEN state ELSE st
    /\ exception' = IF isTerminalState(state) THEN exception ELSE e
    /\ task' = "null"
    /\ auxPromise' = reject(auxPromise, e)
    /\ promise' = Outcome(inner, auxPromise')
    /\ IF st = "CANCELLED"
       THEN /\ onCancelPromise' = notify(onCancelPromise, e)
            /\ UNCHANGED onTimeoutPromise
       ELSE /\ onTimeoutPromise' = notify(onTimeoutPromise, e)
            /\ UNCHANGED onCancelPromise
    /\ UNCHANGED <<startTime, pausev, inner, onStartPromise, handlers, pc,
                   invoked>>

\* Mutant: cancel() does not check that cancellation was enabled.
CancelUnchecked ==
    /\ threw' = FALSE
    /\ Resolved("CANCELLED", CancelledException)
    /\ UNCHANGED <<cfg, hist, fromNowTimer, fromStartTimer, delayTimer, now>>

\* Future.cancel(msg)
Cancel ==
    /\ IF ~canCancel
       THEN /\ threw' = TRUE
            /\ UNCHANGED <<state, task, startTime, exception, pausev, inner,
                           auxPromise, promise, chans, pc, invoked>>
       ELSE /\ threw' = FALSE
            /\ Resolved("CANCELLED", CancelledException)
    /\ UNCHANGED <<cfg, hist, fromNowTimer, fromStartTimer, delayTimer, now>>

\* Future.forceTimeout(new TimeoutException(future))
ForceTimeout ==
    /\ Resolved("TIMEOUT", TimeoutException)
    /\ threw' = FALSE
    /\ UNCHANGED <<cfg, hist, fromNowTimer, fromStartTimer, delayTimer, now>>

\* The callback of the timer armed by timeout(options.timeoutFromNow)
FromNowTimeout ==
    /\ Due(fromNowTimer)
    /\ fromNowTimer' = 0
    /\ Resolved("TIMEOUT", TimeoutException)
    /\ threw' = FALSE
    /\ UNCHANGED <<cfg, hist, fromStartTimer, delayTimer, now>>

\* The callback of the timer armed by timeout(options.timeoutFromStart)
FromStartTimeout ==
    /\ Due(fromStartTimer)
    /\ fromStartTimer' = 0
    /\ Resolved("TIMEOUT", TimeoutException)
    /\ threw' = FALSE
    /\ UNCHANGED <<cfg, hist, fromNowTimer, delayTimer, now>>

\* ------------------------------------------------------------------------
\* Pause and resume
\* ------------------------------------------------------------------------
\* FutureState.pause(), with #setPause
pause ==
    /\ pauseLevel < MaxPause
    /\ pauseLevel' = pauseLevel + 1
    /\ IF state = "RUNNING"
       THEN /\ state' = "PAUSED"
            /\ pausePromise' = IF pauseLevel' = 1 THEN "pending" ELSE pausePromise
            /\ pausedAt' = pauseLevel
       ELSE UNCHANGED <<state, pausePromise, pausedAt>>
    /\ threw' = FALSE
    /\ UNCHANGED <<cfg, late, task, startTime, exception, inner, auxPromise, promise,
                   chans, pc, invoked, fromNowTimer, fromStartTimer,
                   delayTimer, now>>

\* FutureState.resume()
resume ==
    /\ IF pauseLevel > 0
       THEN /\ pauseLevel' = pauseLevel - 1
            /\ IF pauseLevel' = 0 /\ state = "PAUSED"
               THEN /\ state' = "RUNNING"
                    /\ pausePromise' = IF pausePromise = "pending"
                                       THEN "resolved" ELSE pausePromise
                    /\ pausedAt' = 0
               ELSE UNCHANGED <<state, pausePromise, pausedAt>>
       ELSE UNCHANGED <<pauseLevel, state, pausePromise, pausedAt>>
    /\ threw' = FALSE
    /\ UNCHANGED <<cfg, late, task, startTime, exception, inner, auxPromise, promise,
                   chans, pc, invoked, fromNowTimer, fromStartTimer,
                   delayTimer, now>>

\* ------------------------------------------------------------------------
\* The runnable gate
\* ------------------------------------------------------------------------
\* The TaskContext the gate resolves to.
context == FutureException("context", 0, 0)

\* new FinishedException(head, startTime)
FinishedException == FutureException("Finished", startTime, now)

\* The value of the field #pausePromise as the getter returns it: undefined
\* when no pause promise was ever created.
PauseGate ==
    CASE pausePromise = "none" -> [st |-> "undefined", v |-> NoException]
      [] pausePromise = "pending" -> PendingPromise
      [] pausePromise = "resolved" -> Fulfilled(context)

\* FutureState.runable, read in the current state
runable ==
    CASE state = "PENDING" -> [st |-> "throws", v |-> NoException]
      [] state = "RUNNING" -> Fulfilled(context)
      [] state = "PAUSED" -> PauseGate
      [] state \in {"TIMEOUT", "CANCELLED"} -> Rejected(exception)
      [] OTHER -> Rejected(FinishedException)

\* ------------------------------------------------------------------------
\* Observers of the start, cancel and timeout channels
\* ------------------------------------------------------------------------
\* Future.onStart(handler)
OnStart ==
    /\ onStartPromise' = ensureStartPromise(onStartPromise)
    /\ handlers' = handlers \cup {"start"}
    /\ threw' = FALSE
    /\ UNCHANGED <<cfg, hist, state, task, startTime, exception, pausev, inner,
                   auxPromise, promise, onCancelPromise, onTimeoutPromise, pc,
                   invoked, fromNowTimer, fromStartTimer, delayTimer, now>>

\* Future.onCancel(handler)
OnCancel ==
    /\ onCancelPromise' = ensurePromise(onCancelPromise)
    /\ handlers' = handlers \cup {"cancel"}
    /\ threw' = FALSE
    /\ UNCHANGED <<cfg, hist, state, task, startTime, exception, pausev, inner,
                   auxPromise, promise, onStartPromise, onTimeoutPromise, pc,
                   invoked, fromNowTimer, fromStartTimer, delayTimer, now>>

\* Future.onTimeout(handler)
OnTimeout ==
    /\ onTimeoutPromise' = ensurePromise(onTimeoutPromise)
    /\ handlers' = handlers \cup {"timeout"}
    /\ threw' = FALSE
    /\ UNCHANGED <<cfg, hist, state, task, startTime, exception, pausev, inner,
                   auxPromise, promise, onStartPromise, onCancelPromise, pc,
                   invoked, fromNowTimer, fromStartTimer, delayTimer, now>>

\* The promise behind a channel.
ChannelPromise(ch) ==
    CASE ch = "start" -> onStartPromise
      [] ch = "cancel" -> onCancelPromise
      [] ch = "timeout" -> onTimeoutPromise

\* The settlement a registered handler reacts to: onStart registers with
\* then(handler), onCancel and onTimeout with catch(handler).
Listens(ch) == IF ch = "start" THEN "fulfilled" ELSE "rejected"

\* The host runs the reaction of a registered handler, once, after the
\* channel's promise settled the way the registration listens for.
RunHandler ==
    /\ \E ch \in handlers :
          /\ received[ch] = NoException
          /\ ChannelPromise(ch).st = Listens(ch)
          /\ received' = [received EXCEPT ![ch] = ChannelPromise(ch).v]
    /\ threw' = FALSE
    /\ UNCHANGED <<options, legacyTask, behaviour, group, pool, tgroup, minheap, hist, state, task,
                   startTime, exception, pausev, inner, auxPromise, promise,
                   chans, pc, invoked, fromNowTimer, fromStartTimer,
                   delayTimer, now>>

\* ------------------------------------------------------------------------
\* The host clock
\* ------------------------------------------------------------------------
Tick ==
    /\ now < MaxTime
    /\ now' = now + 1
    /\ threw' = FALSE
    /\ UNCHANGED <<cfg, hist, state, task, startTime, exception, pausev, inner,
                   auxPromise, promise, chans, pc, invoked, fromNowTimer,
                   fromStartTimer, delayTimer>>

Next ==
    \/ Start
    \/ Then
    \/ Observe
    \/ DelayElapsed
    \/ TaskReturns
    \/ TaskRejects
    \/ Cancel
    \/ ForceTimeout
    \/ FromNowTimeout
    \/ FromStartTimeout
    \/ pause
    \/ resume
    \/ Tick

Spec == Init /\ [][Next]_vars

\* The lifecycle with a host that keeps running: the awaited computation
\* completes, and the client resumes what it paused.
FairSpec ==
    /\ Init
    /\ [][Next]_vars
    /\ WF_vars(Next)
    /\ WF_vars(TaskReturns)
    /\ WF_vars(TaskRejects)
    /\ WF_vars(resume)

\* The lifecycle together with the registration of observers.
ObserverNext ==
    \/ Start
    \/ DelayElapsed
    \/ TaskReturns
    \/ TaskRejects
    \/ Cancel
    \/ ForceTimeout
    \/ FromNowTimeout
    \/ FromStartTimeout
    \/ Tick
    \/ OnStart
    \/ OnCancel
    \/ OnTimeout
    \/ RunHandler

ObserverSpec == Init /\ [][ObserverNext]_vars

\* ------------------------------------------------------------------------
\* Future.race, Future.all, Future.allSettled, Future.any
\* ------------------------------------------------------------------------
\* new Future(() => Promise.<combinator>(thenables)): a Future without options
\* whose computation hands the members to the host's combinator.
Combinators == {"race", "all", "allSettled", "any"}
Members == 1..MaxMembers

Settled(i) == thenables[i] \in {"FULFILLED", "REJECTED"}

\* What the promise returned by the host's combinator does, as the
\* computation's behaviour: it settles as the members' outcomes dictate.
CombinedBehaviour(k, th, w) ==
    CASE k = "race" ->
            IF w = "FULFILLED" THEN "return"
            ELSE IF w = "REJECTED" THEN "reject" ELSE "never"
      [] k = "all" ->
            IF \E i \in Members : th[i] = "REJECTED" THEN "reject"
            ELSE IF \A i \in Members : th[i] = "FULFILLED" THEN "return"
            ELSE "never"
      [] k = "any" ->
            IF \E i \in Members : th[i] = "FULFILLED" THEN "return"
            ELSE IF \A i \in Members : th[i] = "REJECTED" THEN "reject"
            ELSE "never"
      [] k = "allSettled" ->
            IF \A i \in Members : th[i] \in {"FULFILLED", "REJECTED"}
            THEN "return" ELSE "never"

\* Mutant: the combinator is applied to the members when the Future is
\* built, as Promise.race would be, not when its computation is invoked.
jobsEager == Members \ adopted

\* The host's pending thenable jobs: the computation, once invoked, passes
\* every member to the host's combinator, which resolves a promise with it
\* and so queues a job that will call the member's then().
jobs == IF invoked > 0 THEN Members \ adopted ELSE {}

CombinatorInit ==
    /\ options = NoOptions
    /\ legacyTask = FALSE
    /\ behaviour = "never"
    /\ combinator \in Combinators
    /\ thenables = [i \in Members |-> "PENDING"]
    /\ adopted = {}
    /\ winner = "none"
    /\ NoPool
    /\ NoGroup
    /\ NoHeap
    /\ state = "PENDING"
    /\ task = "wrapper"
    /\ startTime = 0
    /\ exception = NoException
    /\ pauseLevel = 0
    /\ pausePromise = "none"
    /\ inner = PendingPromise
    /\ auxPromise = PendingPromise
    /\ promise = PendingPromise
    /\ onStartPromise = NoPromise
    /\ onCancelPromise = NoPromise
    /\ onTimeoutPromise = NoPromise
    /\ handlers = {}
    /\ received = [ch \in Channels |-> NoException]
    /\ pc = "idle"
    /\ invoked = 0
    /\ now = 1
    /\ fromNowTimer = 0
    /\ fromStartTimer = 0
    /\ delayTimer = 0
    /\ threw = FALSE
    /\ late = FALSE
    /\ pausedAt = 0

\* What the member actions leave alone: the combinator Future itself.
self == <<options, legacyTask, received, combinator, pool, tgroup, minheap, hist, state, task,
          startTime, exception, pausev, inner, auxPromise, promise, chans, pc,
          invoked, fromNowTimer, fromStartTimer, delayTimer, now>>

\* A member's state changes to s: the first member to settle is the winner
\* of a race, and the combined promise follows.
MemberBecomes(i, s) ==
    /\ thenables' = [thenables EXCEPT ![i] = s]
    /\ winner' = IF winner = "none" /\ s \in {"FULFILLED", "REJECTED"}
                  THEN s ELSE winner
    /\ behaviour' = CombinedBehaviour(combinator, thenables', winner')

\* The host runs a thenable job: it calls the member's then(), which starts
\* a Pending member (its computation may throw at once).
ThenableJob ==
    /\ \E i \in jobs :
          /\ adopted' = adopted \cup {i}
          /\ IF thenables[i] = "PENDING"
             THEN \E s \in {"RUNNING", "REJECTED"} : MemberBecomes(i, s)
             ELSE UNCHANGED <<thenables, winner, behaviour>>
    /\ threw' = FALSE
    /\ UNCHANGED self

\* The computation of a Running member returns or fails.
MemberSettles ==
    /\ \E i \in Members :
          /\ thenables[i] = "RUNNING"
          /\ \E s \in {"FULFILLED", "REJECTED"} : MemberBecomes(i, s)
    /\ threw' = FALSE
    /\ UNCHANGED <<self, adopted>>

CombinatorNext ==
    \/ Start
    \/ Then
    \/ Observe
    \/ TaskReturns
    \/ TaskRejects
    \/ Cancel
    \/ ForceTimeout
    \/ Tick
    \/ ThenableJob
    \/ MemberSettles

CombinatorSpec == CombinatorInit /\ [][CombinatorNext]_vars

\* ------------------------------------------------------------------------
\* TaskPool
\* ------------------------------------------------------------------------
\* The Futures a client hands to the pool: option-less Futures, each reduced
\* to its state and its pause depth.
Tasks == 1..MaxTasks

Range(q) == {q[k] : k \in 1..Len(q)}

\* Set.add on the insertion-ordered #queue
SetAdd(q, i) == IF i \in Range(q) THEN q ELSE Append(q, i)

\* Future.pause() on one of the pool's Futures
PauseOf(f) ==
    [state |-> IF f.state = "RUNNING" THEN "PAUSED" ELSE f.state,
     pauseLevel |-> f.pauseLevel + 1]

\* Future.resume() on one of the pool's Futures.  It returns nothing.
ResumeOf(f) ==
    IF f.pauseLevel > 0
    THEN [state |-> IF f.pauseLevel = 1 /\ f.state = "PAUSED"
                    THEN "RUNNING" ELSE f.state,
          pauseLevel |-> f.pauseLevel - 1]
    ELSE f

\* TaskPool.#timeout after construction: the constructor takes the timeout
\* option and stores only the size, so the field keeps its initial undefined
\* (0 here) whatever option was given.
poolTimeoutField == 0

\* Mutant: the admission loop does not look at the size of #running.
HasRoomAlways == TRUE

\* The second condition of the loop in #run
HasRoom == Cardinality(running) < poolSize

\* new TaskPool({size}), and the Futures the client constructed
PoolInit ==
    /\ poolSize \in 1..MaxSize
    /\ queue = <<>>
    /\ running = {}
    /\ tasks = [i \in Tasks |-> [state |-> "PENDING", pauseLevel |-> 0]]
    /\ returned = {}
    /\ poolTimeout \in {0, PoolTimeoutMs}
    /\ hooked = {}
    /\ options = NoOptions
    /\ legacyTask = FALSE
    /\ behaviour = "never"
    /\ NoCombinator
    /\ NoGroup
    /\ NoHeap
    /\ state = "PENDING"
    /\ task = "wrapper"
    /\ startTime = 0
    /\ exception = NoException
    /\ pauseLevel = 0
    /\ pausePromise = "none"
    /\ inner = PendingPromise
    /\ auxPromise = PendingPromise
    /\ promise = PendingPromise
    /\ onStartPromise = NoPromise
    /\ onCancelPromise = NoPromise
    /\ onTimeoutPromise = NoPromise
    /\ handlers = {}
    /\ received = [ch \in Channels |-> NoException]
    /\ pc = "idle"
    /\ invoked = 0
    /\ now = 1
    /\ fromNowTimer = 0
    /\ fromStartTimer = 0
    /\ delayTimer = 0
    /\ threw = FALSE
    /\ late = FALSE
    /\ pausedAt = 0

\* What the pool's actions leave alone: the single Future of the lifecycle.
single == <<options, legacyTask, behaviour, received, group, tgroup, minheap, hist, state,
            task, startTime, exception, pausev, inner, auxPromise, promise,
            chans, pc, invoked, fromNowTimer, fromStartTimer, delayTimer,
            now>>

\* TaskPool.add(task) with #addInternal and #run, for a Future the client has
\* not added before.  The task is put in the
\* queue and paused.  The loop of #run then moves the first queued task to
\* #running and resumes it; "task.resume().start()" continues on the value
\* resume() returned, which is undefined, so the first pass of the loop ends
\* in a TypeError that add() propagates: the admitted task is not started,
\* no finally() hook is attached to it, and add() returns nothing.
add(i) ==
    /\ i \notin running \cup Range(queue)
    /\ LET q == SetAdd(queue, i)
            paused == [tasks EXCEPT ![i] = PauseOf(@)]
       IN  IF HasRoom
           THEN /\ queue' = Tail(q)
                /\ running' = running \cup {Head(q)}
                /\ tasks' = [paused EXCEPT ![Head(q)] = ResumeOf(@)]
                /\ returned' = returned
                /\ hooked' = IF poolTimeoutField # 0
                              THEN hooked \cup {Head(q)} ELSE hooked
                /\ threw' = TRUE
           ELSE /\ queue' = q
                /\ running' = running
                /\ tasks' = paused
                /\ returned' = returned \cup {i}
                /\ hooked' = hooked
                /\ threw' = FALSE
    /\ UNCHANGED <<poolSize, poolTimeout, single>>

\* The client calls then() (or awaits, or calls start()) on a Future that
\* add() returned: the task wrapper runs whatever the pause depth is.
TaskThen(i) ==
    /\ i \in returned
    /\ tasks' = [tasks EXCEPT ![i].state =
                    IF @ = "PENDING" THEN "RUNNING" ELSE @]
    /\ threw' = FALSE
    /\ UNCHANGED <<poolSize, queue, running, returned, poolTimeout, hooked,
                   single>>

\* The computation of a started pool task returns or fails.  No completion
\* hook of the pool is attached to it.
TaskSettles(i) ==
    /\ tasks[i].state \in {"RUNNING", "PAUSED"}
    /\ \E s \in {"FULFILLED", "REJECTED"} :
          tasks' = [tasks EXCEPT ![i].state = s]
    /\ threw' = FALSE
    /\ UNCHANGED <<poolSize, queue, running, returned, poolTimeout, hooked,
                   single>>

Add == \E i \in Tasks : add(i)
ClientThen == \E i \in Tasks : TaskThen(i)
Completion == \E i \in Tasks : TaskSettles(i)

PoolNext ==
    \/ Add
    \/ ClientThen
    \/ Completion

PoolSpec == PoolInit /\ [][PoolNext]_vars

\* TaskPool.add(task) for a Future that is in #queue or #running already, as
\* a TaskGroup does with its members when it is given a pool and again when
\* it starts.  Set.add keeps a queued task where it is; the task is paused
\* once more and #run is entered as on the first add().
readd(i) ==
    /\ i \in running \cup Range(queue)
    /\ i <= MaxReadd
    /\ tasks[i].pauseLevel < MaxPause
    /\ LET q == SetAdd(queue, i)
            paused == [tasks EXCEPT ![i] = PauseOf(@)]
       IN  IF HasRoom
           THEN /\ queue' = Tail(q)
                /\ running' = running \cup {Head(q)}
                /\ tasks' = [paused EXCEPT ![Head(q)] = ResumeOf(@)]
                /\ returned' = returned
                /\ hooked' = IF poolTimeoutField # 0
                              THEN hooked \cup {Head(q)} ELSE hooked
                /\ threw' = TRUE
           ELSE /\ queue' = q
                /\ running' = running
                /\ tasks' = paused
                /\ returned' = returned \cup {i}
                /\ hooked' = hooked
                /\ threw' = FALSE
    /\ UNCHANGED <<poolSize, poolTimeout, single>>

Readd == \E i \in Tasks : readd(i)

\* A pool whose client adds some of its Futures more than once.
PoolReaddNext ==
    \/ PoolNext
    \/ Readd

PoolReaddSpec == PoolInit /\ [][PoolReaddNext]_vars

\* The pool with a client that goes on adding its Futures and awaiting the
\* ones add() returned, and with computations that end once invoked.
PoolFairSpec ==
    /\ PoolInit
    /\ [][PoolNext]_vars
    /\ WF_vars(Add)
    /\ WF_vars(ClientThen)
    /\ WF_vars(Completion)

\* ------------------------------------------------------------------------
\* TaskGroup
\* ------------------------------------------------------------------------
ResultTypes == {"FIRST", "ALL", "ANY", "ALL_SETTLED", "REDUCE"}
TaskTypes == {"NORMAL", "BACKGROUND", "DAEMON"}

\* The reducers a REDUCE group is constructed with: arithmetic_mean of
\* reducers.ts, and a client generator that adds up the values it receives
\* and catches every exception thrown into it, after the example in the
\* documentation of the Reducer type.
Reducers == {"arithmetic_mean", "summing"}

\* The values that promises of the group settle with.
Val(tag, n, items) == [tag |-> tag, n |-> n, items |-> items]
Item(status, n) == [status |-> status, n |-> n]
Number(n) == Val("number", n, <<>>)

\* What the computation of member i returns, and what it fails with.
MemberValue(i) == 10 * i
Reason(i) == Val("reason", i, <<>>)

\* What the body of a reducer receives at a yield.
Received(kind, v, idx) == [kind |-> kind, v |-> v, idx |-> idx]

\* The three sets of members: #normal_tasks, #background_tasks, #daemon_tasks
OfType(t) == {i \in 1..Len(members) : members[i].type = t}
Normal == OfType("NORMAL")

\* Mutant: a result takes the next free place of the array.
SlotByArrival(i) ==
    Cardinality({k \in 1..Len(collected) : collected[k].status # "empty"}) + 1

\* The place of a normal member in the iteration of #normal_tasks
Slot(i) == Cardinality({j \in Normal : j < i}) + 1

\* The members a client added before starting the group, by type; within a
\* set the order of insertion is the order of the indices.
Rank(t) == CASE t = "NORMAL" -> 1 [] t = "BACKGROUND" -> 2 [] OTHER -> 3
Shapes ==
    UNION {{sh \in [1..n -> TaskTypes] :
               /\ sh[1] = "NORMAL"
               /\ \A k \in 1..(n - 1) : Rank(sh[k]) <= Rank(sh[k + 1])}
           : n \in 1..MaxGroup}

\* TaskGroup.#timeout after construction: the constructor passes the timeout
\* option on to Future among the other options and never assigns the field.
groupTimeoutField == 0

\* The options add() gives the Future it puts in a set: Future.resolve
\* constructs it without options.
memberOptions == NoOptions

\* new TaskGroup({resultType, timeout, reducer}) followed by add() for every
\* member.  add() wraps each task with Future.resolve, which starts it.
GroupInit ==
    /\ resultType \in ResultTypes
    /\ reducer \in (IF resultType = "REDUCE" THEN Reducers ELSE {"none"})
    /\ groupTimeout \in {0, GroupTimeoutMs}
    /\ members \in {[k \in 1..Len(sh) |-> [type |-> sh[k], state |-> "RUNNING"]]
                    : sh \in Shapes}
    /\ reactions = <<>>
    /\ collected = <<>>
    /\ generator = "none"
    /\ seen = <<>>
    /\ count = 0
    /\ cancellerRan = FALSE
    /\ groupTimer = FALSE
    /\ firstRejected = 0
    /\ unattached = {}
    /\ options = [NoOptions EXCEPT !.cancel = TRUE]
    /\ legacyTask = FALSE
    /\ behaviour = "never"
    /\ NoCombinator
    /\ NoPool
    /\ NoHeap
    /\ state = "PENDING"
    /\ task = "wrapper"
    /\ startTime = 0
    /\ exception = NoException
    /\ pauseLevel = 0
    /\ pausePromise = "none"
    /\ inner = PendingPromise
    /\ auxPromise = PendingPromise
    /\ promise = PendingPromise
    /\ onStartPromise = NoPromise
    /\ onCancelPromise = NoPromise
    /\ onTimeoutPromise = NoPromise
    /\ handlers = {}
    /\ received = [ch \in Channels |-> NoException]
    /\ pc = "idle"
    /\ invoked = 0
    /\ now = 1
    /\ fromNowTimer = 0
    /\ fromStartTimer = 0
    /\ delayTimer = 0
    /\ threw = FALSE
    /\ late = FALSE
    /\ pausedAt = 0

\* What no step of a group changes.
gfixed == <<options, legacyTask, behaviour, received, group, pool, minheap, hist,
            pausev, chans, pc, fromNowTimer, fromStartTimer, delayTimer, now,
            resultType, reducer, groupTimeout, unattached>>

\* The task wrapper of the group runs its computation, the closure built in
\* the constructor: it registers the forwarding handlers and the canceller,
\* creates the reducer, and #run attaches the aggregation to the normal
\* members.  Reactions to members that have settled already are queued in
\* the order of the set.
RunGroup ==
    /\ task = "wrapper"
    /\ task' = "null"
    /\ state' = "RUNNING"
    /\ startTime' = now
    /\ invoked' = 1
    /\ generator' = IF resultType = "REDUCE" THEN "suspendedStart" ELSE "none"
    /\ count' = IF resultType = "REDUCE" THEN Cardinality(Normal) ELSE 0
    /\ collected' = IF resultType \in {"ALL", "ALL_SETTLED", "ANY"}
                    THEN [k \in 1..Cardinality(Normal) |-> Item("empty", 0)]
                    ELSE <<>>
    /\ reactions' = SelectSeq([k \in 1..Len(members) |-> k],
                              LAMBDA k : /\ k \in Normal
                                         /\ members[k].state # "RUNNING")
    /\ threw' = FALSE
    /\ UNCHANGED <<gfixed, exception, inner, auxPromise, promise, members,
                   seen, cancellerRan, firstRejected>>

\* TaskGroup.start(): Future.start(), then the group timer when #timeout is
\* set.
GroupStart ==
    /\ RunGroup
    /\ groupTimer' = (groupTimeoutField # 0)

\* Future.then() or await on the group: the override of start() is not
\* involved.
GroupThen ==
    /\ RunGroup
    /\ groupTimer' = groupTimer

\* The computation of a member returns or fails.  Once the aggregation is
\* attached the reaction to a normal member's outcome is queued.
MemberEnds(i) ==
    /\ members[i].state = "RUNNING"
    /\ \E s \in {"FULFILLED", "REJECTED"} :
          /\ members' = [members EXCEPT ![i].state = s]
          /\ firstRejected' = IF /\ s = "REJECTED"
                                 /\ i \in Normal \ unattached
                                 /\ firstRejected = 0
                              THEN i ELSE firstRejected
    /\ reactions' = IF invoked = 1 /\ i \in Normal \ unattached
                    THEN Append(reactions, i) ELSE reactions
    /\ threw' = FALSE
    /\ UNCHANGED <<gfixed, state, task, startTime, exception, inner,
                   auxPromise, promise, invoked, collected, generator, seen,
                   count, cancellerRan, groupTimer>>

MemberSettlesInGroup == \E i \in 1..Len(members) : MemberEnds(i)

\* The fulfilled callback of the computation's promise, and the rest of the
\* task wrapper: resolve(await ...), state = FULFILLED.
fulfilled(v) ==
    /\ inner' = resolve(inner, v)
    /\ promise' = IF inner.st = "pending" THEN resolve(promise, v) ELSE promise
    /\ state' = IF inner.st = "pending" THEN "FULFILLED" ELSE state
    /\ exception' = exception

\* The rejected callback of the computation's promise, and the catch block
\* of the task wrapper.
rejected(e) ==
    /\ inner' = reject(inner, e)
    /\ promise' = IF inner.st = "pending" THEN reject(promise, e) ELSE promise
    /\ state' = IF inner.st = "pending" /\ ~isTerminalState(state)
                THEN "REJECTED" ELSE state
    /\ exception' = IF inner.st = "pending" /\ ~isTerminalState(state)
                    THEN e ELSE exception

unsettled == UNCHANGED <<inner, promise, state, exception>>

Filled(arr) == \A k \in 1..Len(arr) : arr[k].status # "empty"

\* What a reducer returns when it receives the sentinel.
Sum(log) ==
    LET RECURSIVE S(_)
        S(k) == IF k = 0 THEN 0
                ELSE S(k - 1) + (IF log[k].kind = "next" /\ log[k].idx # -1
                                 THEN log[k].v ELSE 0)
    IN  S(Len(log))

ReturnValue(log) ==
    IF reducer = "arithmetic_mean"
    THEN 0             \* m is initialised to 0 and never assigned
    ELSE Sum(log)      \* the summing reducer

\* finalize(): the sentinel is sent and the group is fulfilled with what
\* next() returned, the iterator result.
finalize(gen, log) ==
    IF gen = "suspendedYield"
    THEN /\ seen' = Append(log, Received("next", 0, -1))
         /\ generator' = "completed"
         /\ fulfilled(Val("IteratorResult", ReturnValue(seen'), <<>>))
    ELSE /\ seen' = log
         /\ generator' = IF gen = "suspendedStart" THEN "suspendedYield"
                         ELSE gen
         /\ fulfilled(Val("IteratorResult", 0, <<>>))

\* After a call of the reducer that returned: --count, and finalize() at 0.
counted(gen, log) ==
    /\ count' = count - 1
    /\ IF count' = 0
       THEN finalize(gen, log)
       ELSE /\ generator' = gen
            /\ seen' = log
            /\ unsettled

\* acceptor(v): next([v, tidx]).  The first next() of a generator runs its
\* body up to the first yield and its argument is dropped.
acceptor(i) ==
    CASE generator = "suspendedStart" -> counted("suspendedYield", seen)
      [] generator = "suspendedYield" ->
            counted("suspendedYield",
                    Append(seen, Received("next", MemberValue(i), Slot(i) - 1)))
      [] OTHER -> counted(generator, seen)

\* rejector(e): throw(e).  A generator that has not started, or has ended,
\* throws it back; at a yield the body decides.
rejector(i) ==
    IF generator = "suspendedYield" /\ reducer = "summing"
    THEN counted("suspendedYield", Append(seen, Received("caught", i, 0)))
    ELSE /\ generator' = "completed"
         /\ seen' = seen
         /\ count' = count
         /\ rejected(Reason(i))

\* The reaction of the aggregation to the outcome of normal member i.
react(i) ==
    LET ok == members[i].state = "FULFILLED"
        v == MemberValue(i)
    IN  CASE resultType = "FIRST" ->
               /\ IF ok THEN fulfilled(Number(v)) ELSE rejected(Reason(i))
               /\ UNCHANGED <<collected, generator, seen, count>>
          [] resultType = "ALL" ->
               /\ collected' = IF ok
                               THEN [collected EXCEPT ![Slot(i)] =
                                        Item("value", v)]
                               ELSE collected
               /\ IF ~ok THEN rejected(Reason(i))
                  ELSE IF Filled(collected')
                       THEN fulfilled(Val("array", 0, collected'))
                       ELSE unsettled
               /\ UNCHANGED <<generator, seen, count>>
          [] resultType = "ALL_SETTLED" ->
               /\ collected' = [collected EXCEPT ![Slot(i)] =
                                  IF ok THEN Item("fulfilled", v)
                                        ELSE Item("rejected", i)]
               /\ IF Filled(collected')
                  THEN fulfilled(Val("array", 0, collected'))
                  ELSE unsettled
               /\ UNCHANGED <<generator, seen, count>>
          [] resultType = "ANY" ->
               /\ collected' = IF ok THEN collected
                               ELSE [collected EXCEPT ![Slot(i)] =
                                        Item("rejected", i)]
               /\ IF ok THEN fulfilled(Number(v))
                  ELSE IF Filled(collected')
                       THEN rejected(Val("AggregateError", 0, collected'))
                       ELSE unsettled
               /\ UNCHANGED <<generator, seen, count>>
          [] OTHER ->
               /\ IF ok THEN acceptor(i) ELSE rejector(i)
               /\ collected' = collected

\* The host runs the next queued reaction.
Report ==
    /\ reactions # <<>>
    /\ react(Head(reactions))
    /\ reactions' = Tail(reactions)
    /\ threw' = FALSE
    /\ UNCHANGED <<gfixed, task, startTime, auxPromise, invoked, members,
                   cancellerRan, groupTimer, firstRejected>>

\* #resolved(state, handler, e, e) on the group.  The forwarding handlers
\* were attached with catch() to promises that are only ever resolved, so no
\* member hears of it.
groupResolved(st, e) ==
    /\ state' = IF isTerminalState(state) THEN state ELSE st
    /\ exception' = IF isTerminalState(state) THEN exception ELSE e
    /\ task' = "null"
    /\ auxPromise' = reject(auxPromise, e)
    /\ promise' = reject(promise, e)
    /\ threw' = FALSE
    /\ UNCHANGED <<gfixed, startTime, inner, invoked, members, reactions,
                   collected, generator, seen, count, cancellerRan,
                   groupTimer, firstRejected>>

\* group.cancel(): the group is constructed with cancel: true.
GroupCancel == groupResolved("CANCELLED", Val("Cancelled", 0, <<>>))

\* group.forceTimeout(e)
GroupForceTimeout == groupResolved("TIMEOUT", Val("Timeout", 0, <<>>))

\* Future.cancel() on each Future of a set, in order: it throws for a Future
\* that cancellation was not enabled for.
cancelAll(set) ==
    IF memberOptions.cancel
    THEN [k \in 1..Len(members) |->
            IF k \in set /\ ~isTerminalState(members[k].state)
            THEN [members[k] EXCEPT !.state = "CANCELLED"]
            ELSE members[k]]
    ELSE members

\* The canceller, registered with when() by the computation, runs once the
\* group's promise has settled.
RunCanceller ==
    /\ invoked = 1
    /\ promise.st # "pending"
    /\ ~cancellerRan
    /\ cancellerRan' = TRUE
    /\ members' = cancelAll(OfType("DAEMON"))
    /\ threw' = (OfType("DAEMON") # {} /\ ~memberOptions.cancel)
    /\ UNCHANGED <<gfixed, state, task, startTime, exception, inner,
                   auxPromise, promise, invoked, reactions, collected,
                   generator, seen, count, groupTimer, firstRejected>>

GroupNext ==
    \/ GroupStart
    \/ GroupThen
    \/ MemberSettlesInGroup
    \/ Report
    \/ GroupCancel
    \/ GroupForceTimeout
    \/ RunCanceller

GroupSpec == GroupInit /\ [][GroupNext]_vars

\* TaskGroup.add(task, type) on a group that has left PENDING.  The member
\* is wrapped and started by Future.resolve and put in the set of its type;
\* the aggregation of #run is not attached to it.  A RUNNING group hands it
\* to the pool when it has one.  A TIMEOUT or CANCELLED group registers a
\* handler with catch().  A FULFILLED or REJECTED group calls cancel() on
\* every member of every set, which throws out of add() at the first Future
\* that cancellation was not enabled for.
LateAdd(type) ==
    LET n == Len(members) + 1
        added == Append(members, [type |-> type, state |-> "RUNNING"])
    IN  /\ state # "PENDING"
        /\ Cardinality(unattached) < MaxLate
        /\ unattached' = unattached \cup {n}
        /\ IF state \in {"FULFILLED", "REJECTED"}
           THEN /\ members' =
                     IF memberOptions.cancel
                     THEN [k \in 1..n |->
                             IF isTerminalState(added[k].state)
                             THEN added[k]
                             ELSE [added[k] EXCEPT !.state = "CANCELLED"]]
                     ELSE added
                /\ threw' = ~memberOptions.cancel
           ELSE /\ members' = added
                /\ threw' = FALSE
        /\ UNCHANGED <<options, legacyTask, behaviour, received, group, pool,
                       minheap, hist, pausev, chans, pc, fromNowTimer, fromStartTimer,
                       delayTimer, now, resultType, reducer, groupTimeout,
                       state, task, startTime, exception, inner, auxPromise,
                       promise, invoked, reactions, collected, generator,
                       seen, count, cancellerRan, groupTimer, firstRejected>>

GroupAdd == \E type \in TaskTypes : LateAdd(type)

\* A group whose client keeps adding members after starting it.
LateAddNext ==
    \/ GroupNext
    \/ GroupAdd

LateAddSpec == GroupInit /\ [][LateAddNext]_vars

\* The group with a host that runs every queued job.
GroupFairSpec ==
    /\ GroupInit
    /\ [][GroupNext]_vars
    /\ WF_vars(Report)
    /\ WF_vars(RunCanceller)

\* ------------------------------------------------------------------------
\* MinHeap
\* ------------------------------------------------------------------------
\* heap[i], with the indices of the code, which start at 0
At(h, i) == IF i + 1 \in DOMAIN h THEN h[i + 1] ELSE Undefined

\* "!v" on what was read from the array: true of undefined and of 0
Falsy(v) == v = Undefined \/ v = 0

\* [heap[i], heap[j]] = [a, b]
Put2(h, i, a, j, b) == [[h EXCEPT ![i + 1] = a] EXCEPT ![j + 1] = b]

\* The special case of two elements: swap them when they are out of order.
Ordered2(h) == IF h[1] > h[2] THEN <<h[2], h[1]>> ELSE h

\* The loop of add(): the node climbs to its parent while i > 0 and pk > ik,
\* pk and ik being the keys read before the loop.
RECURSIVE BubbleUp(_, _, _, _, _)
BubbleUp(h, i, parent, pk, ik) ==
    IF i > 0 /\ pk > ik
    THEN BubbleUp(Put2(h, parent, At(h, i), i, At(h, parent)),
                  parent, (parent - 1) \div 2, pk, ik)
    ELSE h

\* The array after add(item)
Added(h, item) ==
    LET a == Append(h, item)
        i == Len(a) - 1
        parent == (i - 1) \div 2
    IN  IF Len(a) = 2 THEN Ordered2(a)
        ELSE IF Len(a) > 2
             THEN BubbleUp(a, i, parent, At(a, parent), At(a, i))
             ELSE a

\* The loop of #removeAt.  After a swap the loop goes on with the value and
\* key of the child that moved up, and reads the next children at 2i and
\* 2i + 1; it returns when either of them is missing or 0.
RECURSIVE SiftDown(_, _, _, _, _, _, _)
SiftDown(h, i, vi, left, right, vl, vr) ==
    IF vi > vl \/ vi > vr
    THEN LET toLeft == vl < vr
             h2 == IF toLeft THEN Put2(h, i, vl, left, vi)
                             ELSE Put2(h, i, vr, right, vi)
             i2 == IF toLeft THEN left ELSE right
             vi2 == IF toLeft THEN vl ELSE vr
             vl2 == At(h2, i2 * 2)
             vr2 == At(h2, i2 * 2 + 1)
         IN  IF Falsy(vl2) \/ Falsy(vr2)
             THEN h2
             ELSE SiftDown(h2, i2, vi2, i2 * 2, i2 * 2 + 1, vl2, vr2)
    ELSE h

\* heap.splice(i, 1)
Splice(h, i) ==
    IF i + 1 \in DOMAIN h
    THEN [k \in 1..(Len(h) - 1) |-> IF k <= i THEN h[k] ELSE h[k + 1]]
    ELSE h

\* MinHeap.#removeAt(i): the array afterwards
removeAt(h, i) ==
    IF Len(h) > 2
    THEN LET cut == SubSeq([h EXCEPT ![i + 1] = h[Len(h)]], 1, Len(h) - 1)
             vl == At(cut, 2 * i + 1)
             vr == At(cut, 2 * i + 2)
         IN  IF Len(cut) = 2 THEN Ordered2(cut)
             ELSE IF Falsy(vl) \/ Falsy(vr) THEN cut
             ELSE SiftDown(cut, i, At(cut, i), 2 * i + 1, 2 * i + 2, vl, vr)
    ELSE Splice(h, i)

\* heap.indexOf(item)
indexOf(h, item) ==
    IF \E k \in DOMAIN h : h[k] = item
    THEN (CHOOSE k \in DOMAIN h :
             h[k] = item /\ \A j \in 1..(k - 1) : h[j] # item) - 1
    ELSE 0 - 1

\* MinHeap.peek()
peek == At(heap, 0)

\* new MinHeap()
HeapInit ==
    /\ NoHeap
    /\ options = NoOptions
    /\ legacyTask = FALSE
    /\ behaviour = "never"
    /\ NoCombinator
    /\ NoPool
    /\ NoGroup
    /\ state = "PENDING"
    /\ task = "wrapper"
    /\ startTime = 0
    /\ exception = NoException
    /\ pauseLevel = 0
    /\ pausePromise = "none"
    /\ inner = PendingPromise
    /\ auxPromise = PendingPromise
    /\ promise = PendingPromise
    /\ onStartPromise = NoPromise
    /\ onCancelPromise = NoPromise
    /\ onTimeoutPromise = NoPromise
    /\ handlers = {}
    /\ received = [ch \in Channels |-> NoException]
    /\ pc = "idle"
    /\ invoked = 0
    /\ now = 1
    /\ fromNowTimer = 0
    /\ fromStartTimer = 0
    /\ delayTimer = 0
    /\ threw = FALSE
    /\ late = FALSE
    /\ pausedAt = 0

\* What no operation of a MinHeap changes.
hfixed == <<options, legacyTask, behaviour, received, group, pool, tgroup,
            hist, state, task, startTime, exception, pausev, inner,
            auxPromise, promise, chans, pc, invoked, fromNowTimer,
            fromStartTimer, delayTimer, now, threw>>

\* MinHeap.add(item)
MinHeapAdd(item) ==
    /\ Len(heap) < MaxHeapLen
    /\ held[item] < MaxHeapLen
    /\ heap' = Added(heap, item)
    /\ held' = [held EXCEPT ![item] = @ + 1]
    /\ UNCHANGED <<popped, removed, draining, hfixed>>

\* MinHeap.pop()
pop ==
    /\ popped' = peek
    /\ heap' = removeAt(heap, 0)
    /\ held' = IF peek \in Keys /\ held[peek] > 0
               THEN [held EXCEPT ![peek] = @ - 1] ELSE held
    /\ draining' = TRUE
    /\ UNCHANGED <<removed, hfixed>>

\* MinHeap.remove(item)
remove(item) ==
    LET idx == indexOf(heap, item)
    IN  /\ heap' = IF idx >= 0 THEN removeAt(heap, idx) ELSE heap
        /\ removed' = (idx >= 0)
        /\ held' = IF held[item] > 0
                   THEN [held EXCEPT ![item] = @ - 1] ELSE held
        /\ UNCHANGED <<popped, draining, hfixed>>

HeapAdd == \E item \in Keys : MinHeapAdd(item)
HeapPop == pop
HeapRemove == \E item \in Keys : remove(item)

HeapNext ==
    \/ HeapAdd
    \/ HeapPop
    \/ HeapRemove

HeapSpec == HeapInit /\ [][HeapNext]_vars

\* A client that adds its elements and then pops until the heap is empty.
AddThenPop ==
    \/ ~draining /\ HeapAdd
    \/ HeapPop

HeapSortSpec == HeapInit /\ [][AddThenPop]_vars

TypeOK ==
    /\ state \in State
    /\ task \in {"wrapper", "null"}
    /\ pauseLevel \in 0..MaxPause
    /\ invoked \in 0..MaxInvoke
    /\ now \in 1..MaxTime

\* ------------------------------------------------------------------------
\* Properties
\* ------------------------------------------------------------------------
Terminal == {"FULFILLED", "REJECTED", "CANCELLED", "TIMEOUT"}

\* A handler attached with promise.catch(handler) runs only on a rejection.
CatchRuns(p) == p.st = "rejected"

TimerFires == FromNowTimeout \/ FromStartTimeout

\* A timeout timer is configured.
TimerConfigured == options.timeoutFromNow > 0 \/ options.timeoutFromStart > 0

\* C1: over any sequence of start(), then(), when(), catch(), finally(),
\* cancel() calls and timer events the supplied computation is invoked at
\* most once.
InvokedAtMostOnce == invoked <= 1

\* C1 witness: the computation ran, and a later start() or then() found the
\* task already cleared.
InvokedOnceThenStartedAgain == invoked = 1 /\ late /\ pc = "done"

\* C2: once the state is Fulfilled, Rejected, Cancelled or Timeout no later
\* event changes it or the recorded failure, in particular not the return of
\* a computation that was cancelled or timed out while Running.
TerminalStateIsFinal ==
    [][(state \in Terminal) => (state' = state /\ exception' = exception)]_vars

\* C3: on a cancellation-enabled task in a terminal state, cancel(),
\* forceTimeout() and the expiry of either timeout timer leave the state and
\* the recorded failure unchanged.
LateCancelOrTimeoutIsIdempotent ==
    [][(/\ options.cancel
        /\ state \in Terminal
        /\ (Cancel \/ ForceTimeout \/ TimerFires))
       => (state' = state /\ exception' = exception)]_vars

\* C3 witness: a cancelled task whose timeout channel was fired later than
\* the cancellation that is still its recorded failure.
TimeoutAfterCancel ==
    /\ options.cancel
    /\ state = "CANCELLED"
    /\ exception.kind = "Cancelled"
    /\ onTimeoutPromise.st = "fulfilled"
    /\ onTimeoutPromise.v.endTime > exception.endTime

\* C4: k nested pause() calls on a Running task followed by k resume() calls
\* return it to Running, the state being Paused from the first pause to the
\* k-th resume; resume() at depth 0 changes nothing; the depth is never
\* negative.  pausedAt is the depth at the first of the k pauses, so the k-th
\* resume is the one that brings the depth back to pausedAt.
PauseResumeBalance ==
    /\ [](pauseLevel >= 0)
    /\ [](state = "PAUSED" => pauseLevel > pausedAt)
    /\ [][(state = "RUNNING" /\ pause) => state' = "PAUSED"]_vars
    /\ [][(resume /\ pauseLevel = 0)
          => (pauseLevel' = 0 /\ state' = state)]_vars

\* C5: cancel() on a cancellation-enabled task in Pending or Running sets the
\* state to CANCELLED at once, and awaiting the task then rejects with a
\* CancelledException (Future.cancelled() is this on a fresh task).
CancelRejectsWithCancelled ==
    [][(Cancel /\ options.cancel /\ state \in {"PENDING", "RUNNING"})
       => (/\ state' = "CANCELLED"
           /\ promise'.st = "rejected"
           /\ promise'.v.kind = "Cancelled")]_vars

\* C6: cancel() on a task constructed without the cancel option throws
\* synchronously and leaves the task's state unchanged.
CancelNotEnabledThrows ==
    [][(Cancel /\ ~options.cancel)
       => (threw' /\ state' = state /\ exception' = exception
           /\ promise' = promise /\ task' = task)]_vars

\* C6 witness: cancel() has just thrown on a task that is still running.
CancelThrewOnRunningTask == threw /\ ~options.cancel /\ state = "RUNNING"

\* C7: a task cancelled while it waits out its delay ends in Cancelled: it
\* never enters Running afterwards and its computation is never invoked.
CancelledInDelayStaysCancelled ==
    [][(pc = "delay" /\ state = "CANCELLED")
       => (state' = "CANCELLED" /\ invoked' = 0)]_vars

\* C8: the timeoutFromStart timer is armed only when the task enters Running
\* (a task that is not started stays Pending however late it is), and when it
\* expires on a task that has not settled the state becomes TIMEOUT and the
\* task rejects with a TimeoutException whose endTime - startTime is at least
\* the configured time.
FromStartTimerRunsFromStart ==
    /\ [](fromStartTimer # 0
            => (startTime # 0
                /\ fromStartTimer = startTime + options.timeoutFromStart))
    /\ []((/\ pc = "idle"
           /\ options.timeoutFromNow = 0
           /\ auxPromise.st = "pending")
          => (state = "PENDING" /\ fromStartTimer = 0))
    /\ [][(FromStartTimeout /\ promise.st = "pending")
          => (/\ state' = "TIMEOUT"
              /\ promise'.st = "rejected"
              /\ promise'.v.kind = "Timeout"
              /\ promise'.v.endTime - promise'.v.startTime
                    >= options.timeoutFromStart)]_vars

\* C8 witness: a never-settling computation whose only timer is
\* timeoutFromStart has timed out at the timer's deadline.
TimedOutFromStart ==
    /\ behaviour = "never"
    /\ options.timeoutFromStart > 0
    /\ options.timeoutFromNow = 0
    /\ startTime > 1
    /\ fromStartTimer = 0
    /\ state = "TIMEOUT"
    /\ promise = Rejected(exception)
    /\ exception = FutureException("Timeout", startTime,
                                   startTime + options.timeoutFromStart)

\* C9: the timeoutFromNow timer runs from construction: when it expires on a
\* task that has not settled, Pending or Running, the state becomes TIMEOUT
\* and the task rejects with a TimeoutException, no earlier than the
\* configured time after construction.
FromNowTimerRunsFromConstruction ==
    /\ [](fromNowTimer \in {0, 1 + options.timeoutFromNow})
    /\ [](pc = "idle" /\ state = "PENDING" /\ options.timeoutFromNow > 0
            => fromNowTimer # 0)
    /\ [][(/\ FromNowTimeout
           /\ promise.st = "pending"
           /\ state \in {"PENDING", "RUNNING"})
          => (/\ state' = "TIMEOUT"
              /\ promise'.st = "rejected"
              /\ promise'.v.kind = "Timeout"
              /\ promise'.v.endTime >= 1 + options.timeoutFromNow)]_vars

\* C9 witness: the timer expired on a task that was never started.
TimedOutWhilePending ==
    /\ options.timeoutFromNow > 0
    /\ pc = "idle"
    /\ fromNowTimer = 0
    /\ state = "TIMEOUT"
    /\ promise = Rejected(exception)
    /\ exception.kind = "Timeout"

ThenStartsObserversDoNot ==
    /\ [][(state = "PENDING" /\ Then)
          => (state' # "PENDING" /\ task' = "null")]_vars
    /\ [][(state = "PENDING" /\ Observe)
          => (state' = "PENDING" /\ task' = task /\ invoked' = invoked)]_vars

\* C11 witness: the task stayed Pending for a while after its construction
\* and the first call that reached its wrapper, then() or start(), has just
\* run it: Running, the wrapper consumed, the computation invoked once.
StartedByFirstCall ==
    /\ state = "RUNNING"
    /\ task = "null"
    /\ ~late
    /\ invoked = 1
    /\ startTime = now
    /\ now > 1
    /\ pauseLevel = 0

\* The state the wrapper leaves behind when it runs the computation: RUNNING,
\* or REJECTED when the computation threw before its first await.
StateAfterInvoke == IF behaviour = "throw" THEN "REJECTED" ELSE "RUNNING"

\* What start() leaves alone on a task that is no longer Pending.
lifecycle == <<state, task, startTime, exception, pauseLevel, pausePromise,
               inner, auxPromise, promise, pc, invoked, fromNowTimer,
               fromStartTimer, delayTimer>>

\* C12 as stated: start() on a Pending task leaves it Running when no delay
\* is configured and in Delay when delay > 0, the delayed task being Running
\* once the delay has elapsed; start() in any other state changes nothing.
StartMovesPendingToRunning ==
    /\ [][(state = "PENDING" /\ Start /\ options.delay = 0)
          => state' = "RUNNING"]_vars
    /\ [][(state = "PENDING" /\ Start /\ options.delay > 0)
          => state' = "DELAY"]_vars
    /\ [][(state = "DELAY" /\ DelayElapsed) => state' = "RUNNING"]_vars
    /\ [][(state # "PENDING" /\ Start) => UNCHANGED lifecycle]_vars

\* C12 amended: as above, except that a computation that throws before its
\* first await leaves the task Rejected, not Running, when the call (or the
\* continuation after the delay) returns.  The computation is invoked by the
\* call itself when there is no delay and not before the delay has elapsed
\* otherwise.
StartMovesPendingTask ==
    /\ [][(state = "PENDING" /\ Start /\ options.delay = 0)
          => (/\ state' = StateAfterInvoke
              /\ invoked' = invoked + 1
              /\ startTime' = now)]_vars
    /\ [][(state = "PENDING" /\ Start /\ options.delay > 0)
          => (/\ state' = "DELAY"
              /\ invoked' = invoked
              /\ delayTimer' = now + options.delay)]_vars
    /\ [][(state = "DELAY" /\ DelayElapsed)
          => (/\ state' = StateAfterInvoke
              /\ invoked' = invoked + 1
              /\ now >= delayTimer)]_vars
    /\ [](state = "DELAY" => (invoked = 0 /\ delayTimer > 0))
    /\ [][(state # "PENDING" /\ Start) => UNCHANGED lifecycle]_vars

\* C12 witness: a delayed task whose computation threw as soon as the delay
\* had elapsed.
RejectedOnDelayedInvoke ==
    /\ options.delay > 0
    /\ behaviour = "throw"
    /\ state = "REJECTED"
    /\ invoked = 1
    /\ startTime >= 1 + options.delay
    /\ promise = Rejected(TaskError)

\* C13: the runnable gate throws when read on a Pending task, is resolved
\* with the context on a Running one, is an unresolved promise for as long as
\* the task is Paused and is resolved by the resume() that returns the task to
\* Running at depth 0, is rejected with the recorded cancellation or timeout
\* when Cancelled or Timeout, and with a FinishedException when Fulfilled or
\* Rejected.
RunnableGateFollowsState ==
    /\ [](state = "PENDING" => runable.st = "throws")
    /\ [](state = "RUNNING" => runable = Fulfilled(context))
    /\ [](state = "PAUSED" => runable.st = "pending")
    /\ [][(state = "PAUSED" /\ state' = "RUNNING")
          => (resume /\ pauseLevel' = 0 /\ pausePromise' = "resolved")]_vars
    /\ [](state = "CANCELLED"
            => (runable = Rejected(exception) /\ exception.kind = "Cancelled"))
    /\ [](state = "TIMEOUT"
            => (runable = Rejected(exception) /\ exception.kind = "Timeout"))
    /\ [](state \in {"FULFILLED", "REJECTED"}
            => (runable.st = "rejected" /\ runable.v.kind = "Finished"))

\* What the start channel delivers: the recorded start time.
StartNotice == FutureException("start", startTime, 0)

\* C14: a handler registered with onStart is invoked exactly once with the
\* recorded start time if the task ever enters Running, whether registered
\* before or after the start, and never if the task never starts.  Once the
\* task has started, a registered handler has either run or its reaction is
\* due (its promise is fulfilled with the start time); it runs with that
\* time, it never runs a second time, and it does not run before the start.
StartHandlerRunsOnce ==
    /\ [](startTime = 0 <=> invoked = 0)
    /\ []((state = "RUNNING" \/ state = "PAUSED") => startTime # 0)
    /\ []((startTime # 0 /\ "start" \in handlers)
            => onStartPromise = Fulfilled(StartNotice))
    /\ []((startTime = 0 /\ "start" \in handlers)
            => (onStartPromise = PendingPromise
                /\ received["start"] = NoException))
    /\ [](received["start"] \in {NoException, StartNotice})
    /\ [][received["start"] # NoException
            => received'["start"] = received["start"]]_vars

\* C14 witness: the handler has run with the start time of a task that was
\* started only after some time and has meanwhile finished.
StartHandlerHasRun ==
    /\ received["start"] = StartNotice
    /\ startTime > 1
    /\ now > startTime
    /\ state = "FULFILLED"

\* The handler registered on a channel has been called with v, or its
\* reaction is due: the channel's promise settled with v the way the
\* registration listens for.
Notified(ch, v) ==
    \/ received[ch] = v
    \/ (ChannelPromise(ch).st = Listens(ch) /\ ChannelPromise(ch).v = v)

\* C15: a handler registered with onCancel (onTimeout) is invoked exactly
\* once with the recorded CancelledException (TimeoutException) when the task
\* is cancelled (times out), whether it was registered before or after.
FailureHandlersRunOnce ==
    /\ []((state = "CANCELLED" /\ "cancel" \in handlers)
            => Notified("cancel", exception))
    /\ []((state = "TIMEOUT" /\ "timeout" \in handlers)
            => Notified("timeout", exception))
    /\ [][received["cancel"] # NoException
            => received'["cancel"] = received["cancel"]]_vars
    /\ [][received["timeout"] # NoException
            => received'["timeout"] = received["timeout"]]_vars

\* C16: a Future built by race/all/any/allSettled leaves every member
\* Pending when it is built and for as long as it is not itself started; a
\* member's then() is called only after the combinator's computation was
\* invoked by start() or then(), and then a call is queued for every member,
\* after which no member is Pending.
MembersStartWithCombinator ==
    /\ [](state = "PENDING"
            => (invoked = 0 /\ \A i \in Members : thenables[i] = "PENDING"))
    /\ [](invoked = 0
            => (adopted = {} /\ \A i \in Members : thenables[i] = "PENDING"))
    /\ [][(invoked = 0 /\ invoked' > 0)
            => ((Start \/ Then) /\ jobs' = Members)]_vars
    /\ [](invoked > 0 => jobs \cup adopted = Members)
    /\ [](\A i \in adopted : thenables[i] # "PENDING")

\* C16 witness: the started combinator has had the then() of every member
\* called and is itself still Running.
AllMembersStarted ==
    /\ combinator \in Combinators
    /\ state = "RUNNING"
    /\ adopted = Members
    /\ \A i \in Members : thenables[i] = "RUNNING"

\* C17: the running set of a TaskPool of size S never holds more than S
\* tasks.
RunningWithinSize == Cardinality(running) <= poolSize

\* C17 witness: a pool of size 2 whose running set is full while another
\* task waits in the queue.
PoolIsFull ==
    /\ poolSize = 2
    /\ Cardinality(running) = 2
    /\ queue # <<>>

\* C18: every task added to a TaskPool is eventually admitted and started.
EveryAddedTaskStarts ==
    \A i \in Tasks :
        (i \in running \cup Range(queue)) ~> (tasks[i].state # "PENDING")

\* The pool's tasks whose computation was invoked and has not settled.
Unsettled == {i \in Tasks : tasks[i].state \in {"RUNNING", "PAUSED"}}

\* C19: at most poolSize of the pool's tasks have an invoked, unsettled
\* computation, and no task that is still queued is among them.
ConcurrencyWithinSize ==
    /\ Cardinality(Unsettled) <= poolSize
    /\ Unsettled \cap Range(queue) = {}

\* C21: in a TaskPool constructed with a timeout, every admitted task has the
\* forced-timeout timer hooked to its start notification, so that it is
\* forced into TIMEOUT when it has not settled that long after its start.
AdmittedTasksAreTimed == poolTimeout # 0 => running \subseteq hooked

\* The normal member at place k of #normal_tasks, and the values of all of
\* them in the order of insertion.
NthNormal(k) ==
    CHOOSE i \in Normal : Cardinality({j \in Normal : j < i}) = k - 1
ValuesInOrder ==
    [k \in 1..Cardinality(Normal) |-> Item("value", MemberValue(NthNormal(k)))]

\* C22: an ALL group that fulfils does so with the values of its normal
\* members in insertion order, and one that a member makes reject does so
\* with the reason of the first member to reject.
AllGroupFollowsMembers ==
    resultType = "ALL" =>
        /\ promise.st = "fulfilled" =>
              promise.v = Val("array", 0, ValuesInOrder)
        /\ (promise.st = "rejected" /\ promise.v.tag = "reason") =>
              promise.v = Reason(firstRejected)

\* The outcome record of every normal member, in the order of insertion.
OutcomesInOrder ==
    [k \in 1..Cardinality(Normal) |->
        IF members[NthNormal(k)].state = "FULFILLED"
        THEN Item("fulfilled", MemberValue(NthNormal(k)))
        ELSE Item("rejected", NthNormal(k))]

MeanOfThreeIsTwenty ==
    (/\ resultType = "REDUCE"
     /\ reducer = "arithmetic_mean"
     /\ Normal = {1, 2, 3}
     /\ Len(members) = 3
     /\ promise.st = "fulfilled") => promise.v = Number(20)

\* The places of the reducer's log that hold the outcome of member i, and
\* those that hold the sentinel.
OutcomesOf(i) ==
    {k \in 1..Len(seen) :
        \/ seen[k].kind = "next" /\ seen[k].idx = Slot(i) - 1
                                 /\ seen[k].v = MemberValue(i)
        \/ seen[k].kind = "caught" /\ seen[k].v = i}
Sentinels == {k \in 1..Len(seen) : seen[k].kind = "next" /\ seen[k].idx = -1}

\* C25: when a REDUCE group fulfils, its reducer has received the outcome of
\* every normal member exactly once, then the sentinel exactly once and
\* last, and the group's value is the value the reducer returned.
ReducerReceivesEveryOutcome ==
    (resultType = "REDUCE" /\ promise.st = "fulfilled") =>
        /\ \A i \in Normal : Cardinality(OutcomesOf(i)) = 1
        /\ Sentinels = {Len(seen)}
        /\ Len(seen) = Cardinality(Normal) + 1
        /\ promise.v = Number(ReturnValue(seen))

\* The aggregation has reacted to the outcome of normal member i.
Reported(i) ==
    /\ invoked = 1
    /\ i \in Normal
    /\ members[i].state # "RUNNING"
    /\ i \notin Range(reactions)

\* C26: a REDUCE group whose reducer catches the exceptions thrown into it
\* is not rejected with a member's reason and has finalised once every
\* member has reported; with a reducer that lets them propagate, the
\* computation of the group is rejected with the reason of a reported
\* rejected member.
ReducerDecidesOnFailures ==
    resultType = "REDUCE" =>
        /\ reducer = "summing" =>
              /\ ~(promise.st = "rejected" /\ promise.v.tag = "reason")
              /\ (\A i \in Normal : Reported(i)) => inner.st = "fulfilled"
        /\ reducer = "arithmetic_mean" =>
              \A i \in Normal :
                 (Reported(i) /\ members[i].state = "REJECTED") =>
                     (inner.st = "rejected" /\ inner.v.tag = "reason")

\* The values that background members return.
BackgroundValues == {MemberValue(i) : i \in OfType("BACKGROUND")}

\* C27: a group has not fulfilled while one of its background members is
\* still running, and no value of a background member is part of what the
\* group fulfils with.
GroupWaitsForBackground ==
    promise.st = "fulfilled" =>
        /\ \A i \in OfType("BACKGROUND") : members[i].state # "RUNNING"
        /\ promise.v.n \notin BackgroundValues
        /\ \A k \in 1..Len(promise.v.items) :
              promise.v.items[k].n \notin BackgroundValues

\* C28: once the group's promise has settled, by any means, no daemon
\* member goes on running: those not yet terminal are cancelled.
DaemonsEndWithGroup ==
    (promise.st # "pending") ~>
        (\A i \in OfType("DAEMON") : members[i].state # "RUNNING")

\* C29: after the group was cancelled or timed out, whether Pending or
\* started, none of its normal, background and daemon members goes on
\* running: the cancellation or the timeout is forwarded to each of them.
GroupForwardsCancelAndTimeout ==
    (state \in {"CANCELLED", "TIMEOUT"}) ~>
        (\A i \in 1..Len(members) : members[i].state # "RUNNING")

\* C30: a group constructed with a timeout has its timer armed once it has
\* been started, by start() or by then(), so that it is rejected with a
\* timeout failure when it has not settled that long after its start.
StartedGroupIsTimed == (groupTimeout # 0 /\ invoked = 1) => groupTimer

\* C31: while the group is Pending the members added to it have only been
\* recorded: the computation of none of them has been started.
PendingGroupHoldsPendingMembers ==
    state = "PENDING" =>
        \A i \in 1..Len(members) : members[i].state = "PENDING"

\* C32: add() on a group that is FULFILLED or REJECTED leaves the new member
\* CANCELLED and returns without raising an error.
LateMemberIsCancelled ==
    [][(state \in {"FULFILLED", "REJECTED"} /\ Len(members') = Len(members) + 1)
        => (members'[Len(members')].state = "CANCELLED" /\ ~threw')]_vars

\* C33: once the task's promise has settled, the state agrees with what an
\* observer receives: a value exactly when FULFILLED, a CancelledException
\* exactly when CANCELLED, a TimeoutException exactly when TIMEOUT.  Stated
\* for the computations that are awaited (C34 is about the other style).
StateAgreesWithOutcome ==
    (promise.st # "pending" /\ ~legacyTask) =>
        /\ (promise.st = "fulfilled") <=> (state = "FULFILLED")
        /\ (promise.st = "rejected" /\ promise.v.kind = "Cancelled")
              <=> (state = "CANCELLED")
        /\ (promise.st = "rejected" /\ promise.v.kind = "Timeout")
              <=> (state = "TIMEOUT")

\* C34: whichever style the computation has, once it has completed on a task
\* that was never cancelled or timed out the state is FULFILLED if it
\* returned or resolved, and REJECTED if it threw or rejected.
CompletionSetsState ==
    (pc = "done" /\ exception.kind \notin {"Cancelled", "Timeout"}
                 /\ state \notin {"CANCELLED", "TIMEOUT"}) =>
        /\ inner.st = "fulfilled" => state = "FULFILLED"
        /\ inner.st = "rejected" => state = "REJECTED"

\* C35: on a task that was cancelled or timed out while it was still
\* Pending, start() and then() leave the state as it is and do not invoke
\* the computation.
EndedWhilePending == pc = "idle" /\ state \in {"CANCELLED", "TIMEOUT"}

StartAfterPendingEndIsInert ==
    [][(EndedWhilePending /\ (Start \/ Then))
       => (state' = state /\ invoked' = 0 /\ pc' = "idle")]_vars

StartedAfterPendingEnd ==
    /\ EndedWhilePending
    /\ late
    /\ invoked = 0

\* C37: whenever the state is PAUSED the resume gate exists and is
\* unresolved.
PausedHasPendingGate == state = "PAUSED" => pausePromise = "pending"

QueueAndRunningDisjoint == Range(queue) \cap running = {}

\* C36: after a sequence of add() calls peek() is an element with the least
\* key, and the pop() calls that follow return the elements in nondecreasing
\* order of their keys.
PopsInKeyOrder ==
    /\ []((~draining /\ heap # <<>>) => \A x \in Range(heap) : peek <= x)
    /\ [][(pop /\ popped \in Keys /\ popped' \in Keys)
          => popped <= popped']_vars

\* C40: every element's key is at least its parent's, the heap holds exactly
\* what was added and not taken out, and remove(item) returns true exactly
\* when the item was present.
HeapIsSound ==
    /\ [](\A i \in 1..(Len(heap) - 1) : At(heap, (i - 1) \div 2) <= At(heap, i))
    /\ [](\A x \in Keys : Cardinality({k \in DOMAIN heap : heap[k] = x}) = held[x])
    /\ [][\A item \in Keys : remove(item) => (removed' <=> held[item] > 0)]_vars

====
